---- MODULE Spec2Model ----
(***************************************************************************)
(* Model of picoclaw's session persistence: pkg/memory/sqlite.go (the      *)
(* SQLite-backed session store) and pkg/memory/migration.go (the importer  *)
(* of legacy JSON session files).                                          *)
(*                                                                         *)
(* Every exported store method is modelled statement by statement: one     *)
(* action per SQL statement, with the database/sql connection pool of      *)
(* size one (db.SetMaxOpenConns(1)) as the variable conn.  db is the       *)
(* committed database, cur is what statements issued on the connection     *)
(* see (db plus the uncommitted writes of the open transaction).           *)
(***************************************************************************)
EXTENDS Integers, Sequences, FiniteSets, TLC

(* ------------------------------ bounds -------------------------------- *)

\* AddFullMessage is not called on a session whose largest seq is MaxSeq.
MaxSeq == 3
\* time.Now() returns a value in 0..MaxClock (seconds, RFC3339 granularity).
MaxClock == 1
\* MigrateFromJSON is called at most MaxRuns times.
MaxRuns == 2
\* At most MaxLoops run loops of the HeartbeatService are launched.
MaxLoops == 2
\* Start() and Stop() of the HeartbeatService are called at most MaxCalls times.
MaxCalls == 4

(* ------------------------------ values -------------------------------- *)

Procs == {"p1", "p2"}
None == "none"

\* Session keys: the key recorded inside the legacy file "a_b.json" and the
\* string derived from that file's name.
InnerKey == "a:b"
FileKey == "a_b"
Keys == {InnerKey, FileKey}
\* The key of a legacy session no store call is made on.
ImportedKey == "c"
AllKeys == Keys \cup {ImportedKey}

\* providers.ToolCall as the tests build it: ID, Type, Function{Name, Arguments}.
ToolCall1 == [ID |-> "call_1", Type |-> "function",
              Function |-> [Name |-> "web_search", Arguments |-> "{q:test}"]]

ToolCall2 == [ID |-> "call_2", Type |-> "function",
              Function |-> [Name |-> "read_file", Arguments |-> "{path:a}"]]

\* providers.Message values used as inputs.
MsgUser == [Role |-> "user", Content |-> "hello", ToolCalls |-> <<>>, ToolCallID |-> ""]
MsgTool == [Role |-> "assistant", Content |-> "hi",
            ToolCalls |-> <<ToolCall1, ToolCall2>>, ToolCallID |-> "call_0"]
Msgs == {MsgUser, MsgTool}

\* Inputs of SetHistory.
Histories == {<<>>, <<MsgTool>>, <<MsgTool, MsgUser>>}
\* Inputs of TruncateHistory (keepLast).
KeepLasts == {-1, 0, 1, 2}
\* Inputs of SetSummary.
Summaries == {"note"}

\* sql NULL / sql.NullString{Valid: false}
NULL == [Valid |-> FALSE]

\* The JSON text of a tool-call list, as its sequence of tokens: punctuation
\* and string literals.
Punct(c) == [t |-> "punct", v |-> c]
JString(v) == [t |-> "string", v |-> v]

\* json.Marshal of one struct: an object with a member per field, in field
\* order, under the field's JSON name.
MarshalFunctionCall(f) ==
    <<Punct("{"), JString("name"), Punct(":"), JString(f.Name), Punct(","),
      JString("arguments"), Punct(":"), JString(f.Arguments), Punct("}")>>
MarshalToolCall(tc) ==
    <<Punct("{"), JString("id"), Punct(":"), JString(tc.ID), Punct(","),
      JString("type"), Punct(":"), JString(tc.Type), Punct(","),
      JString("function"), Punct(":")>>
    \o MarshalFunctionCall(tc.Function) \o <<Punct("}")>>

\* The elements of a JSON array, separated by commas.
RECURSIVE MarshalElements(_)
MarshalElements(tcs) ==
    IF Len(tcs) = 0 THEN <<>>
    ELSE IF Len(tcs) = 1 THEN MarshalToolCall(tcs[1])
    ELSE MarshalToolCall(tcs[1]) \o <<Punct(",")>> \o MarshalElements(Tail(tcs))

\* json.Marshal(msg.ToolCalls): the text of the JSON array, one object per
\* call in slice order.
MarshalToolCalls(tcs) ==
    [Valid |-> TRUE,
     String |-> <<Punct("[")>> \o MarshalElements(tcs) \o <<Punct("]")>>]

\* The decoder reading a value at token i: a string literal, or an object as
\* the function from its member names to their values; next is the token
\* after the value.
RECURSIVE ParseValue(_, _)
RECURSIVE ParseMembers(_, _, _)
ParseValue(toks, i) ==
    IF toks[i] = Punct("{") THEN ParseMembers(toks, i + 1, <<>>)
    ELSE [val |-> toks[i].v, next |-> i + 1]
ParseMembers(toks, i, members) ==
    IF toks[i] = Punct("}") THEN [val |-> members, next |-> i + 1]
    ELSE IF toks[i] = Punct(",") THEN ParseMembers(toks, i + 1, members)
    ELSE LET value == ParseValue(toks, i + 2)
         IN ParseMembers(toks, value.next, (toks[i].v :> value.val) @@ members)

\* A struct field takes the member of its JSON name, or keeps its zero value
\* when the object has none.
Member(object, name, zero) == IF name \in DOMAIN object THEN object[name] ELSE zero
DecodeFunctionCall(object) ==
    [Name |-> Member(object, "name", ""), Arguments |-> Member(object, "arguments", "")]
DecodeToolCall(object) ==
    [ID |-> Member(object, "id", ""), Type |-> Member(object, "type", ""),
     Function |-> DecodeFunctionCall(Member(object, "function", <<>>))]

\* The elements of the array from token i on, appended to calls in order.
RECURSIVE ParseElements(_, _, _)
ParseElements(toks, i, calls) ==
    IF toks[i] = Punct("]") THEN calls
    ELSE IF toks[i] = Punct(",") THEN ParseElements(toks, i + 1, calls)
    ELSE LET object == ParseValue(toks, i)
         IN ParseElements(toks, object.next, Append(calls, DecodeToolCall(object.val)))

\* json.Unmarshal([]byte(toolCallsJSON.String), &msg.ToolCalls)
UnmarshalToolCalls(js) == ParseElements(js, 2, <<>>)

\* Mutant: the pointer is never set, NULL is stored for every message.
ToolCallsNeverStored(msg) == NULL

\* var toolCallsJSON *string; set only if len(msg.ToolCalls) > 0.
ToolCallsJSON(msg) ==
    IF Len(msg.ToolCalls) > 0 THEN MarshalToolCalls(msg.ToolCalls) ELSE NULL

(* --------------------------- the two tables --------------------------- *)

\* CREATE TABLE sessions / messages: both start empty.  The AUTOINCREMENT id
\* of messages is a surrogate that only names the row; rows of one session are
\* told apart by seq (UNIQUE(session_key, seq)).
EmptyDB == [sessions |-> {}, messages |-> {}]

SessionRows(d, k) == {s \in d.sessions : s.key = k}
MessageRows(d, k) == {m \in d.messages : m.session_key = k}
Seqs(d, k) == {m.seq : m \in MessageRows(d, k)}

Max(S) == CHOOSE x \in S : \A y \in S : y <= x
Min(S) == CHOOSE x \in S : \A y \in S : x <= y

\* Rows of a finite set in ascending seq (ORDER BY seq ASC).
RECURSIVE OrderBySeq(_)
OrderBySeq(R) ==
    IF R = {} THEN <<>>
    ELSE LET lo == Min({r.seq : r \in R})
             r == CHOOSE x \in R : x.seq = lo
         IN <<r>> \o OrderBySeq(R \ {r})

\* One scanned row turned into a providers.Message.
ScanMessage(r) ==
    [Role |-> r.role, Content |-> r.content,
     ToolCalls |-> IF r.tool_calls_json.Valid /\ r.tool_calls_json.String # <<>>
                   THEN UnmarshalToolCalls(r.tool_calls_json.String)
                   ELSE <<>>,
     ToolCallID |-> r.tool_call_id]

\* What GetHistory returns when its query runs against d.
HistoryOf(d, k) ==
    LET rs == OrderBySeq(MessageRows(d, k))
    IN [n \in 1..Len(rs) |-> ScanMessage(rs[n])]

\* The seq values of the rows GetHistory returns, in the order returned.
SeqsInOrder(d, k) ==
    LET rs == OrderBySeq(MessageRows(d, k))
    IN [n \in 1..Len(rs) |-> rs[n].seq]

\* What GetSummary returns: "" when there is no session row.
SummaryOf(d, k) ==
    IF SessionRows(d, k) = {} THEN ""
    ELSE (CHOOSE s \in SessionRows(d, k) : TRUE).summary

(* ----------------------------- statements ----------------------------- *)

\* Mutant: INSERT OR REPLACE, an existing row is overwritten.
InsertOrReplaceSession(d, k, summary, created, updated) ==
    [d EXCEPT !.sessions = {s \in @ : s.key # k} \cup
        {[key |-> k, summary |-> summary, created_at |-> created,
          updated_at |-> updated]}]

\* INSERT OR IGNORE INTO sessions (key, summary, created_at, updated_at)
InsertOrIgnoreSession(d, k, summary, created, updated) ==
    IF SessionRows(d, k) # {} THEN d
    ELSE [d EXCEPT !.sessions = @ \cup
            {[key |-> k, summary |-> summary, created_at |-> created,
              updated_at |-> updated]}]

\* Mutant: ensureSession resets an existing row.
ensureSessionReplaces(d, k, now) == InsertOrReplaceSession(d, k, "", now, now)

\* ensureSession: insert-if-absent with an empty summary, both stamps now.
ensureSession(d, k, now) == InsertOrIgnoreSession(d, k, "", now, now)

\* touchSession: UPDATE sessions SET updated_at = ? WHERE key = ?
touchSession(d, k, now) ==
    [d EXCEPT !.sessions =
        {IF s.key = k THEN [s EXCEPT !.updated_at = now] ELSE s : s \in @}]

\* Mutant: the next seq is COUNT(*) + 1 instead of MAX(seq) + 1.
nextSeqByCount(d, k) == Cardinality(MessageRows(d, k)) + 1

\* Mutant: the first seq of a session is 0 (the zero value) instead of 1.
nextSeqFromZero(d, k) == IF Seqs(d, k) # {} THEN Max(Seqs(d, k)) + 1 ELSE 0

\* Mutant: MAX(seq) is taken over all sessions (the WHERE clause is missing).
nextSeqAnySession(d, k) ==
    IF d.messages # {} THEN Max({m.seq : m \in d.messages}) + 1 ELSE 1

\* nextSeq: SELECT MAX(seq); maxSeq + 1, or 1 when MAX is NULL.
nextSeq(d, k) == IF Seqs(d, k) # {} THEN Max(Seqs(d, k)) + 1 ELSE 1

\* The row an INSERT INTO messages builds.
MessageRow(k, sq, msg, now) ==
    [session_key |-> k, seq |-> sq, role |-> msg.Role, content |-> msg.Content,
     tool_calls_json |-> ToolCallsJSON(msg), tool_call_id |-> msg.ToolCallID,
     created_at |-> now]

\* Whether the INSERT passes the table's constraints: UNIQUE(session_key, seq)
\* and the foreign key to sessions(key) (PRAGMA foreign_keys=ON).
CanInsertMessage(d, k, sq) == sq \notin Seqs(d, k) /\ SessionRows(d, k) # {}

InsertMessage(d, k, sq, msg, now) ==
    [d EXCEPT !.messages = @ \cup {MessageRow(k, sq, msg, now)}]

\* DELETE FROM messages WHERE session_key = ?
DeleteMessages(d, k) ==
    [d EXCEPT !.messages = {m \in @ : m.session_key # k}]

\* Mutant: the subquery orders by seq ascending, keeping the oldest rows.
RECURSIVE TopBySeqAsc(_, _)
TopBySeqAsc(R, n) ==
    IF n <= 0 \/ R = {} THEN {}
    ELSE LET r == CHOOSE x \in R : \A y \in R : x.seq <= y.seq
         IN {r} \cup TopBySeqAsc(R \ {r}, n - 1)

\* SELECT id FROM messages WHERE session_key = ? ORDER BY seq DESC LIMIT ?
RECURSIVE TopBySeqDesc(_, _)
TopBySeqDesc(R, n) ==
    IF n <= 0 \/ R = {} THEN {}
    ELSE LET r == CHOOSE x \in R : \A y \in R : y.seq <= x.seq
         IN {r} \cup TopBySeqDesc(R \ {r}, n - 1)

\* DELETE FROM messages WHERE session_key = ? AND id NOT IN (the top keepLast)
DeleteAllButLast(d, k, keepLast) ==
    LET keep == TopBySeqDesc(MessageRows(d, k), keepLast)
    IN [d EXCEPT !.messages = {m \in @ : m.session_key # k \/ m \in keep}]

\* UPDATE sessions SET summary = ?, updated_at = ? WHERE key = ?
UpdateSummary(d, k, summary, now) ==
    [d EXCEPT !.sessions =
        {IF s.key = k THEN [s EXCEPT !.summary = summary, !.updated_at = now]
         ELSE s : s \in @}]

(* ----------------------------- legacy files --------------------------- *)

\* jsonSession records as json.Unmarshal yields them.
SessAB == [Key |-> InnerKey, Messages |-> <<MsgUser, MsgTool>>,
           Summary |-> "legacy", Created |-> 0, Updated |-> 0]
SessC == [Key |-> ImportedKey, Messages |-> <<MsgTool>>,
          Summary |-> "", Created |-> 0, Updated |-> 0]
SessNoKey == [Key |-> "", Messages |-> <<MsgUser>>,
              Summary |-> "", Created |-> 0, Updated |-> 0]

\* File contents: a parsable session record, or bytes json.Unmarshal rejects.
Parsable(sess) == [IsDir |-> FALSE, Valid |-> TRUE, Sess |-> sess]
Unparsable == [IsDir |-> FALSE, Valid |-> FALSE]
Directory == [IsDir |-> TRUE]
NoFile == [Exists |-> FALSE]

MigratedSuffix == ".migrated"
\* filePath + ".migrated"
MigratedName(name) ==
    CASE name = "a_b.json" -> "a_b.json.migrated"
      [] name = "bad.json" -> "bad.json.migrated"
      [] name = "c.json" -> "c.json.migrated"
      [] name = "d.json" -> "d.json.migrated"
      [] name = "nokey.json" -> "nokey.json.migrated"

\* The legacy directory before the first run, and every name it can hold.
LegacyFiles == {"a_b.json", "bad.json", "c.json", "d.json", "nokey.json"}
FileNames == LegacyFiles \cup {MigratedName(n) : n \in LegacyFiles}
InitialFS ==
    [n \in FileNames |->
       CASE n = "a_b.json" -> Parsable(SessAB)
         [] n = "bad.json" -> Unparsable
         [] n = "c.json" -> Parsable(SessC)
         [] n = "d.json" -> Directory
         [] n = "nokey.json" -> Parsable(SessNoKey)
         [] OTHER -> NoFile]

\* strings.HasSuffix(name, ".json")
HasSuffixJSON(name) == name \in LegacyFiles
\* strings.HasSuffix(name, ".migrated")
HasSuffixMigrated(name) == name \notin LegacyFiles

\* os.ReadDir: the names present, sorted by filename.
RECURSIVE SortNames(_)
NameOrder == <<"a_b.json", "a_b.json.migrated", "bad.json", "bad.json.migrated",
               "c.json", "c.json.migrated", "d.json", "d.json.migrated", "nokey.json",
               "nokey.json.migrated">>
Position(n) == CHOOSE q \in 1..Len(NameOrder) : NameOrder[q] = n
SortNames(S) ==
    IF S = {} THEN <<>>
    ELSE LET n == CHOOSE x \in S : \A y \in S : Position(x) <= Position(y)
         IN <<n>> \o SortNames(S \ {n})
ReadDir(f) ==
    LET names == SortNames({n \in FileNames : f[n] # NoFile})
    IN [q \in 1..Len(names) |-> [Name |-> names[q], IsDir |-> f[names[q]].IsDir]]

\* Whether the loop body reaches importSession for this entry, given that
\* os.ReadFile succeeded: a regular file named *.json, not *.migrated, that
\* parses and has a non-empty key.
Importable(f, name) ==
    /\ f[name] # NoFile
    /\ ~f[name].IsDir
    /\ HasSuffixJSON(name)
    /\ ~HasSuffixMigrated(name)
    /\ f[name].Valid
    /\ f[name].Sess.Key # ""

\* Mutant: the file is copied to the new name and left in place.
RenameCopies(f, name) == [f EXCEPT ![MigratedName(name)] = f[name]]

\* os.Rename(filePath, filePath+".migrated")
Rename(f, name) ==
    [f EXCEPT ![MigratedName(name)] = f[name], ![name] = NoFile]

(* ------------------------------- state -------------------------------- *)

VARIABLES
    db,      \* the committed tables
    cur,     \* the tables as statements on the connection see them
    conn,    \* who holds the pool's single connection, or None
    closed,  \* whether Close() has been called on the pool
    clock,   \* time.Now()
    fs,      \* the legacy directory: name -> content
    runs,    \* number of MigrateFromJSON calls so far
    pc,      \* per caller: the statement it is about to execute
    op,      \* per caller: the call in progress (or the last one, when idle)
    ret,     \* per caller: what the last call returned
    loc,     \* per caller: locals seq, i, now, messages; and the history
             \* began (time.Now() when the call was made)
    mig,     \* per caller: locals of MigrateFromJSON (entries, idx, migrated, sess)
             \* and the history of the run: start (db when it began), failed
             \* (entries whose read or import failed), clean (no failure and no
             \* other call during the run), rerun (it began right after a clean run)
    addLog,  \* history: per key, the messages appended since the key was fresh
    quiet,   \* history: the last call was a fault-free migrate run
    hb       \* the HeartbeatService, its callers and its run loops

\* The variables of the SQLite store and the importer.
storeVars == <<db, cur, conn, closed, clock, fs, runs, pc, op, ret, loc, mig, addLog, quiet>>

vars == <<db, cur, conn, closed, clock, fs, runs, pc, op, ret, loc, mig, addLog, quiet, hb>>

NoOp == [name |-> "none"]
NoRet == [err |-> FALSE, val |-> "pending"]
NoLoc == [seq |-> 0, i |-> 0, now |-> 0, messages |-> <<>>, began |-> 0]
NoSess == [Key |-> "", Messages |-> <<>>, Summary |-> "", Created |-> 0, Updated |-> 0]
NoMig == [entries |-> <<>>, idx |-> 0, migrated |-> 0, sess |-> NoSess,
          clean |-> TRUE, failed |-> {}, rerun |-> FALSE, start |-> EmptyDB]
\* addLog[k].pure: since k had no session, only AddFullMessage committed on k.
\* addLog[k].written: the messages the committed calls left on k, as the
\* callers gave them: appended, replaced, cut to the last ones, imported.
FreshLog == [pure |-> TRUE, msgs |-> <<>>, written |-> <<>>]

\* The HeartbeatService before NewHeartbeatService: no service, no caller in
\* a call, no run loop.  stopChan is "open" or "closed"; closes counts the
\* close(hs.stopChan) executed (a second one panics); mu is the writer holding
\* hs.mu; hpc and hret are the callers' positions and the last value Start
\* returned to each; loop is the position of each run loop goroutine and
\* ticker whether its ticker.C holds a tick; launched counts the go
\* hs.runLoop() executed; calls counts the calls made on the service; panicked
\* says the process died of a panic; stopCalled and invoked are history (Stop
\* was called; which handler was invoked last).
NoHB ==
    [constructed |-> FALSE, enabled |-> FALSE, onHeartbeat |-> FALSE,
     onHeartbeatWithTools |-> FALSE, stopChan |-> "open", closes |-> 0,
     mu |-> None, hpc |-> [p \in Procs |-> "idle"],
     hret |-> [p \in Procs |-> "none"],
     loop |-> [l \in 1..MaxLoops |-> "none"],
     ticker |-> [l \in 1..MaxLoops |-> FALSE],
     launched |-> 0, calls |-> 0, panicked |-> FALSE, stopCalled |-> FALSE,
     invoked |-> "none"]

Init ==
    /\ db = EmptyDB
    /\ cur = EmptyDB
    /\ conn = None
    /\ closed = FALSE
    /\ clock = 0
    /\ fs = InitialFS
    /\ runs = 0
    /\ pc = [p \in Procs |-> "idle"]
    /\ op = [p \in Procs |-> NoOp]
    /\ ret = [p \in Procs |-> NoRet]
    /\ loc = [p \in Procs |-> NoLoc]
    /\ mig = [p \in Procs |-> NoMig]
    /\ addLog = [k \in Keys |-> FreshLog]
    /\ quiet = FALSE
    /\ hb = NoHB

(* ------------------------------- calls -------------------------------- *)

\* Every call of the API on key k with inputs from the sets above.
CallsOn(k) ==
    [name : {"AddFullMessage"}, key : {k}, msg : Msgs]
    \cup [name : {"GetHistory"}, key : {k}]
    \cup [name : {"GetSummary"}, key : {k}]
    \cup [name : {"SetSummary"}, key : {k}, summary : Summaries]
    \cup [name : {"TruncateHistory"}, key : {k}, keepLast : KeepLasts]
    \cup [name : {"SetHistory"}, key : {k}, history : Histories]

Add(k, m) == [name |-> "AddFullMessage", key |-> k, msg |-> m]
Get(k) == [name |-> "GetHistory", key |-> k]
Truncate(k, n) == [name |-> "TruncateHistory", key |-> k, keepLast |-> n]
SetHist(k, h) == [name |-> "SetHistory", key |-> k, history |-> h]
Migrate == [name |-> "MigrateFromJSON"]
CloseStore == [name |-> "Close"]

\* The calls of the sequential specification: the whole API on one session,
\* appends and reads on a second one.
SeqOps == CallsOn(InnerKey) \cup {Add(FileKey, MsgUser), Get(FileKey)}

\* The calls of the concurrent specification: two callers on one session.
ConcOps ==
    {Add(InnerKey, MsgUser), Get(InnerKey),
     [name |-> "GetSummary", key |-> InnerKey],
     [name |-> "SetSummary", key |-> InnerKey, summary |-> "note"],
     Truncate(InnerKey, 1), SetHist(InnerKey, <<MsgTool, MsgUser>>)}

\* The calls of the migration specification: the importer, and store calls
\* on the keys it imports or could confuse.
MigOps ==
    {Migrate, Add(InnerKey, MsgTool), Get(InnerKey),
     [name |-> "GetSummary", key |-> InnerKey],
     [name |-> "SetSummary", key |-> InnerKey, summary |-> "note"],
     Truncate(InnerKey, 1), SetHist(InnerKey, <<MsgTool>>),
     Add(FileKey, MsgUser), Get(FileKey)}

\* The calls of the timed specification: the four mutating calls on one session.
TimeOps ==
    {Add(InnerKey, MsgUser), Get(InnerKey),
     [name |-> "GetSummary", key |-> InnerKey],
     [name |-> "SetSummary", key |-> InnerKey, summary |-> "note"],
     Truncate(InnerKey, 1), SetHist(InnerKey, <<MsgTool>>)}

\* The calls of the timed migration specification: the importer between
\* appends and summary updates on the session it imports.
MigTimeOps ==
    {Migrate, Add(InnerKey, MsgUser),
     [name |-> "SetSummary", key |-> InnerKey, summary |-> "note"]}

GetSum(k) == [name |-> "GetSummary", key |-> k]
SetSum(k, text) == [name |-> "SetSummary", key |-> k, summary |-> text]

\* The calls of the summary specification: two summary texts, and the calls
\* that create a session implicitly.
SumOps ==
    {SetSum(InnerKey, "note"), SetSum(InnerKey, "memo"), GetSum(InnerKey),
     Add(InnerKey, MsgUser), SetHist(InnerKey, <<MsgTool>>)}

\* The calls of the closing specification: Close among the store calls and
\* the importer.
CloseOps ==
    {CloseStore, Migrate, Add(InnerKey, MsgUser), Get(InnerKey), GetSum(InnerKey),
     SetSum(InnerKey, "note"), Truncate(InnerKey, 1), SetHist(InnerKey, <<MsgTool>>)}

\* The live traffic of the concurrent migration specification.
LiveOps ==
    {Add(InnerKey, MsgUser), SetHist(InnerKey, <<MsgTool>>), Truncate(InnerKey, 1)}

\* The first statement of each call.
FirstPc(o) ==
    CASE o.name = "GetHistory" -> "query"
      [] o.name = "GetSummary" -> "queryrow"
      [] o.name = "MigrateFromJSON" -> "readdir"
      [] o.name = "Close" -> "close"
      [] OTHER -> "begin"

\* The statement after BeginTx.
AfterBegin(o) ==
    CASE o.name = "AddFullMessage" -> "add_ensure"
      [] o.name = "SetSummary" -> "sum_ensure"
      [] o.name = "TruncateHistory" -> "trunc_delete"
      [] o.name = "SetHistory" -> "hist_ensure"
      [] o.name = "MigrateFromJSON" -> "imp_session"

\* Statements executed inside an open transaction.
TxPcs == {"add_ensure", "add_nextseq", "add_insert", "add_touch",
          "sum_ensure", "sum_update", "trunc_delete", "trunc_touch",
          "hist_ensure", "hist_delete", "hist_insert", "hist_touch",
          "imp_session", "imp_count", "imp_insert", "commit"}

InMigrate(p) == op[p].name = "MigrateFromJSON"

\* The name of a legacy file without its ".json" suffix: the key a session
\* would get if it were keyed by its file name. MigrateFromJSON never computes
\* it (it reads the key from the file); only the mutant below does.
TrimSuffixJSON(name) ==
    CASE name = "a_b.json" -> FileKey
      [] name = "bad.json" -> "bad"
      [] name = "c.json" -> ImportedKey
      [] name = "d.json" -> "d"
      [] name = "nokey.json" -> "nokey"
      [] OTHER -> name

\* Mutant: the importer keys the session by the file's name.
TxKeyFromFileName(p) ==
    IF InMigrate(p) THEN TrimSuffixJSON(mig[p].entries[mig[p].idx].Name) ELSE op[p].key

\* The session key the open transaction of p works on.
TxKey(p) == IF InMigrate(p) THEN mig[p].sess.Key ELSE op[p].key

\* Mutant: the pool is not limited to one connection.
ConnAlwaysAvailable == TRUE

\* The database/sql pool: BeginTx and Query wait until the single connection
\* (SetMaxOpenConns(1)) is free.
ConnAvailable == conn = None

\* Mutant: Close() leaves the pool usable.
DBAlwaysOpen == TRUE

\* database/sql after s.db.Close(): no new transaction or query is started,
\* BeginTx and Query return an error instead.
DBOpen == ~closed

\* Mutant: the statements ran outside a transaction, their writes stay.
RollbackKeepsWrites == db' = cur /\ cur' = cur

\* tx.Rollback(): the uncommitted writes are dropped.
Rollback == cur' = db /\ db' = db

\* tx.Commit(): the writes of the transaction become the database.
CommitTx == db' = cur /\ cur' = cur

\* A call returns r to its caller.
Return(p, r) ==
    /\ pc' = [pc EXCEPT ![p] = "idle"]
    /\ ret' = [ret EXCEPT ![p] = r]

\* Mutant: an import error aborts the batch (return instead of continue).
ErroredAborts(p, why) ==
    /\ Return(p, [err |-> TRUE, val |-> why])
    /\ mig' = mig

\* A store call returns an error; inside MigrateFromJSON the loop continues
\* with the next entry instead (the file is not renamed and not counted).
Errored(p, why) ==
    IF InMigrate(p)
    THEN /\ pc' = [pc EXCEPT ![p] = "mig_file"]
         /\ mig' = [mig EXCEPT ![p].idx = @ + 1, ![p].clean = FALSE,
                               ![p].failed = @ \cup {mig[p].entries[mig[p].idx].Name}]
         /\ ret' = ret
    ELSE /\ Return(p, [err |-> TRUE, val |-> why])
         /\ mig' = mig

Goto(p, label) == pc' = [pc EXCEPT ![p] = label]

\* A caller starts one of the calls in O.
Call(p, O) ==
    /\ pc[p] = "idle"
    /\ \E o \in O :
         /\ o.name = "AddFullMessage" => nextSeq(db, o.key) <= MaxSeq
         /\ o.name = "MigrateFromJSON" => runs < MaxRuns
         /\ op' = [op EXCEPT ![p] = o]
         /\ pc' = [pc EXCEPT ![p] = FirstPc(o)]
         /\ runs' = IF o.name = "MigrateFromJSON" THEN runs + 1 ELSE runs
         /\ mig' = [q \in Procs |->
                      IF q = p
                      THEN [NoMig EXCEPT !.rerun = quiet,
                                         !.clean = \A r \in Procs \ {p} : pc[r] = "idle"]
                      ELSE IF pc[q] # "idle" THEN [mig[q] EXCEPT !.clean = FALSE]
                      ELSE mig[q]]
    /\ ret' = [ret EXCEPT ![p] = NoRet]
    /\ loc' = [loc EXCEPT ![p] = [NoLoc EXCEPT !.began = clock]]
    /\ quiet' = FALSE
    /\ UNCHANGED <<hb, closed, db, cur, conn, clock, fs, addLog>>

\* time.Now() advances.
Tick ==
    /\ clock < MaxClock
    /\ clock' = clock + 1
    /\ UNCHANGED <<hb, closed, db, cur, conn, fs, runs, pc, op, ret, loc, mig, addLog, quiet>>

\* s.db.BeginTx(ctx, nil) obtains the connection.
BeginTx(p) ==
    /\ pc[p] = "begin"
    /\ DBOpen
    /\ ConnAvailable
    /\ conn' = p
    /\ Goto(p, AfterBegin(op[p]))
    /\ UNCHANGED <<hb, closed, db, cur, clock, fs, runs, op, ret, loc, mig, addLog, quiet>>

\* BeginTx returns an error (the context is done): nothing was started.
BeginTxFails(p) ==
    /\ pc[p] = "begin"
    /\ Errored(p, "begin tx")
    /\ UNCHANGED <<hb, closed, db, cur, conn, clock, fs, runs, op, loc, addLog, quiet>>

\* A statement of the open transaction, or its Commit, returns an error (the
\* context is cancelled, the engine fails): the deferred tx.Rollback() runs.
StmtFails(p) ==
    /\ pc[p] \in TxPcs
    /\ Rollback
    /\ conn' = None
    /\ Errored(p, "statement")
    /\ UNCHANGED <<hb, closed, clock, fs, runs, op, loc, addLog, quiet>>

\* The last n elements of a sequence (none when n <= 0).
LastOf(sq, n) ==
    IF n <= 0 THEN <<>>
    ELSE IF Len(sq) <= n THEN sq
    ELSE SubSeq(sq, Len(sq) - n + 1, Len(sq))

\* The messages on the key of p once its transaction has committed, as the
\* callers gave them.
WrittenAfterCommit(p, written) ==
    CASE op[p].name = "AddFullMessage" -> Append(written, op[p].msg)
      [] op[p].name = "SetHistory" -> op[p].history
      [] op[p].name = "TruncateHistory" -> LastOf(written, op[p].keepLast)
      [] op[p].name = "MigrateFromJSON" ->
            IF written = <<>> THEN mig[p].sess.Messages ELSE written
      [] OTHER -> written

\* What the committed transaction of p does to the log of its key.
LogAfterCommit(p) ==
    IF TxKey(p) \notin Keys THEN addLog
    ELSE LET written == WrittenAfterCommit(p, addLog[TxKey(p)].written)
         IN IF op[p].name = "AddFullMessage" /\ addLog[TxKey(p)].pure
            THEN [addLog EXCEPT ![TxKey(p)].msgs = Append(@, op[p].msg),
                                ![TxKey(p)].written = written]
            ELSE [addLog EXCEPT ![TxKey(p)] =
                     [pure |-> FALSE, msgs |-> <<>>, written |-> written]]

\* tx.Commit()
Commit(p) ==
    /\ pc[p] = "commit"
    /\ CommitTx
    /\ conn' = None
    /\ addLog' = LogAfterCommit(p)
    /\ IF InMigrate(p)
       THEN Goto(p, "mig_rename") /\ ret' = ret
       ELSE Return(p, [err |-> FALSE, val |-> "ok"])
    /\ UNCHANGED <<hb, closed, clock, fs, runs, op, loc, mig, quiet>>

(* --------------------------- AddFullMessage --------------------------- *)

\* A statement violates a table constraint: it fails, the transaction rolls back.
ConstraintFails(p) ==
    /\ Rollback
    /\ conn' = None
    /\ Errored(p, "constraint")
    /\ UNCHANGED <<hb, closed, clock, fs, runs, op, loc, addLog, quiet>>

\* A statement of the transaction of p turns cur into d and control goes to label.
Exec(p, d, label) ==
    /\ cur' = d
    /\ Goto(p, label)
    /\ UNCHANGED <<hb, closed, db, conn, clock, fs, runs, op, ret, loc, mig, addLog, quiet>>

AddEnsure(p) ==
    /\ pc[p] = "add_ensure"
    /\ Exec(p, ensureSession(cur, op[p].key, clock), "add_nextseq")

AddNextSeq(p) ==
    /\ pc[p] = "add_nextseq"
    /\ loc' = [loc EXCEPT ![p].seq = nextSeq(cur, op[p].key)]
    /\ Goto(p, "add_insert")
    /\ UNCHANGED <<hb, closed, db, cur, conn, clock, fs, runs, op, ret, mig, addLog, quiet>>

AddInsert(p) ==
    /\ pc[p] = "add_insert"
    /\ IF CanInsertMessage(cur, op[p].key, loc[p].seq)
       THEN Exec(p, InsertMessage(cur, op[p].key, loc[p].seq, op[p].msg, clock),
                 "add_touch")
       ELSE ConstraintFails(p)

AddTouch(p) ==
    /\ pc[p] = "add_touch"
    /\ Exec(p, touchSession(cur, op[p].key, clock), "commit")

(* ----------------------------- SetSummary ----------------------------- *)

SumEnsure(p) ==
    /\ pc[p] = "sum_ensure"
    /\ Exec(p, ensureSession(cur, op[p].key, clock), "sum_update")

SumUpdate(p) ==
    /\ pc[p] = "sum_update"
    /\ Exec(p, UpdateSummary(cur, op[p].key, op[p].summary, clock), "commit")

(* --------------------------- TruncateHistory -------------------------- *)

\* Mutant: TruncateHistory creates the session row like the other calls.
TruncateDeleteEnsures(d, k, keepLast) ==
    ensureSession(IF keepLast <= 0 THEN DeleteMessages(d, k)
                  ELSE DeleteAllButLast(d, k, keepLast), k, 0)

\* The DELETE TruncateHistory issues for keepLast.
TruncateDelete(d, k, keepLast) ==
    IF keepLast <= 0 THEN DeleteMessages(d, k) ELSE DeleteAllButLast(d, k, keepLast)

TruncDelete(p) ==
    /\ pc[p] = "trunc_delete"
    /\ Exec(p, TruncateDelete(cur, op[p].key, op[p].keepLast), "trunc_touch")

TruncTouch(p) ==
    /\ pc[p] = "trunc_touch"
    /\ Exec(p, touchSession(cur, op[p].key, clock), "commit")

(* ----------------------------- SetHistory ----------------------------- *)

\* Mutant: the 0-based loop index is used as seq.
PositionSeqZeroBased(n) == n - 1

\* The seq SetHistory and importSession give the message at 1-based position n
\* (i+1 for the 0-based loop index i).
PositionSeq(n) == n

HistEnsure(p) ==
    /\ pc[p] = "hist_ensure"
    /\ Exec(p, ensureSession(cur, op[p].key, clock), "hist_delete")

HistDelete(p) ==
    /\ pc[p] = "hist_delete"
    /\ cur' = DeleteMessages(cur, op[p].key)
    /\ loc' = [loc EXCEPT ![p].now = clock, ![p].i = 1]
    /\ Goto(p, IF Len(op[p].history) = 0 THEN "hist_touch" ELSE "hist_insert")
    /\ UNCHANGED <<hb, closed, db, conn, clock, fs, runs, op, ret, mig, addLog, quiet>>

\* One iteration of an insert loop over msgs: message i gets seq PositionSeq(i).
InsertLoop(p, k, msgs, done) ==
    IF CanInsertMessage(cur, k, PositionSeq(loc[p].i))
    THEN /\ cur' = InsertMessage(cur, k, PositionSeq(loc[p].i), msgs[loc[p].i],
                                 loc[p].now)
         /\ loc' = [loc EXCEPT ![p].i = @ + 1]
         /\ Goto(p, IF loc[p].i = Len(msgs) THEN done ELSE pc[p])
         /\ UNCHANGED <<hb, closed, db, conn, clock, fs, runs, op, ret, mig, addLog, quiet>>
    ELSE ConstraintFails(p)

HistInsert(p) ==
    /\ pc[p] = "hist_insert"
    /\ InsertLoop(p, op[p].key, op[p].history, "hist_touch")

HistTouch(p) ==
    /\ pc[p] = "hist_touch"
    /\ Exec(p, touchSession(cur, op[p].key, clock), "commit")

(* ------------------------ GetHistory, GetSummary ---------------------- *)

\* s.db.QueryContext: the query runs on the connection once it is free.
GetQuery(p) ==
    /\ pc[p] = "query"
    /\ DBOpen
    /\ ConnAvailable
    /\ conn' = p
    /\ loc' = [loc EXCEPT ![p].messages = HistoryOf(cur, op[p].key)]
    /\ Goto(p, "rows")
    /\ UNCHANGED <<hb, closed, db, cur, clock, fs, runs, op, ret, mig, addLog, quiet>>

\* The iteration fails: rows.Scan or json.Unmarshal returns an error, or
\* rows.Err() is not nil (the context is cancelled, the engine fails). The
\* deferred rows.Close() releases the connection; nil and the error are returned.
GetRowsFails(p) ==
    /\ pc[p] = "rows"
    /\ conn' = None
    /\ Return(p, [err |-> TRUE, val |-> "rows"])
    /\ UNCHANGED <<hb, closed, db, cur, clock, fs, runs, op, loc, mig, addLog, quiet>>

\* rows.Close() releases the connection; the messages are returned.
GetRows(p) ==
    /\ pc[p] = "rows"
    /\ conn' = None
    /\ Return(p, [err |-> FALSE, val |-> loc[p].messages])
    /\ UNCHANGED <<hb, closed, db, cur, clock, fs, runs, op, loc, mig, addLog, quiet>>

\* s.db.QueryRowContext(...).Scan(&summary)
GetSummary(p) ==
    /\ pc[p] = "queryrow"
    /\ DBOpen
    /\ ConnAvailable
    /\ Return(p, [err |-> FALSE, val |-> SummaryOf(cur, op[p].key)])
    /\ UNCHANGED <<hb, closed, db, cur, conn, clock, fs, runs, op, loc, mig, addLog, quiet>>

\* The query returns an error (the context is done).
QueryFails(p) ==
    /\ pc[p] \in {"query", "queryrow"}
    /\ Return(p, [err |-> TRUE, val |-> "query"])
    /\ UNCHANGED <<hb, closed, db, cur, conn, clock, fs, runs, op, loc, mig, addLog, quiet>>

(* -------------------------------- Close ------------------------------- *)

\* s.db.Close(): the pool is closed (closing it again returns nil as well); a
\* transaction in progress keeps its connection until it ends.
CloseDB(p) ==
    /\ pc[p] = "close"
    /\ closed' = TRUE
    /\ Return(p, [err |-> FALSE, val |-> "ok"])
    /\ UNCHANGED <<hb, db, cur, conn, clock, fs, runs, op, loc, mig, addLog, quiet>>

(* --------------------------- MigrateFromJSON -------------------------- *)

\* os.ReadDir(sessionsDir); migrated := 0
MigReadDir(p) ==
    /\ pc[p] = "readdir"
    /\ mig' = [mig EXCEPT ![p].entries = ReadDir(fs), ![p].idx = 1,
                          ![p].migrated = 0, ![p].start = db]
    /\ Goto(p, "mig_file")
    /\ UNCHANGED <<hb, closed, db, cur, conn, clock, fs, runs, op, ret, loc, addLog, quiet>>

\* os.ReadDir fails with an error other than "not exist".
MigReadDirFails(p) ==
    /\ pc[p] = "readdir"
    /\ Return(p, [err |-> TRUE, val |-> 0])
    /\ UNCHANGED <<hb, closed, db, cur, conn, clock, fs, runs, op, loc, mig, addLog, quiet>>

\* continue: on to the next entry.
NextEntry(p, readOk) ==
    /\ mig' = [mig EXCEPT ![p].idx = @ + 1, ![p].clean = @ /\ readOk,
                          ![p].failed = IF readOk THEN @
                                        ELSE @ \cup {mig[p].entries[mig[p].idx].Name}]
    /\ Goto(p, "mig_file")

\* The entry is skipped by its kind or name, before the file is read.
SkippedByName(e) == e.IsDir \/ ~HasSuffixJSON(e.Name) \/ HasSuffixMigrated(e.Name)

\* One entry of the loop, up to the call of importSession.
MigFile(p) ==
    /\ pc[p] = "mig_file"
    /\ mig[p].idx <= Len(mig[p].entries)
    /\ LET e == mig[p].entries[mig[p].idx]
           f == fs[e.Name]
       IN \/ SkippedByName(e) /\ NextEntry(p, TRUE)
          \/ ~SkippedByName(e) /\ NextEntry(p, FALSE)            \* os.ReadFile fails
          \/ /\ ~SkippedByName(e) /\ f # NoFile
             /\ ~Importable(fs, e.Name)                           \* parse error, empty key
             /\ NextEntry(p, TRUE)
          \/ /\ ~SkippedByName(e) /\ f # NoFile
             /\ Importable(fs, e.Name)
             /\ mig' = [mig EXCEPT ![p].sess = f.Sess]
             /\ Goto(p, "begin")
    /\ UNCHANGED <<hb, closed, db, cur, conn, clock, fs, runs, op, ret, loc, addLog, quiet>>

\* INSERT OR IGNORE INTO sessions with the file's summary and time stamps.
ImpSession(p) ==
    /\ pc[p] = "imp_session"
    /\ Exec(p, InsertOrIgnoreSession(cur, TxKey(p), mig[p].sess.Summary,
                                     mig[p].sess.Created, mig[p].sess.Updated),
            "imp_count")

\* SELECT COUNT(*) FROM messages WHERE session_key = ?
CountMessages(d, k) == Cardinality(MessageRows(d, k))

\* if count > 0 { return tx.Commit() }; now := time.Now()
ImpCount(p) ==
    /\ pc[p] = "imp_count"
    /\ loc' = [loc EXCEPT ![p].now = clock, ![p].i = 1]
    /\ Goto(p, IF CountMessages(cur, TxKey(p)) > 0
                  \/ Len(mig[p].sess.Messages) = 0
               THEN "commit" ELSE "imp_insert")
    /\ UNCHANGED <<hb, closed, db, cur, conn, clock, fs, runs, op, ret, mig, addLog, quiet>>

ImpInsert(p) ==
    /\ pc[p] = "imp_insert"
    /\ InsertLoop(p, TxKey(p), mig[p].sess.Messages, "commit")

\* _ = os.Rename(filePath, filePath+".migrated"); migrated++
MigRename(p) ==
    /\ pc[p] = "mig_rename"
    /\ LET name == mig[p].entries[mig[p].idx].Name
       IN \/ /\ fs[name] # NoFile
             /\ fs' = Rename(fs, name)
             /\ mig' = [mig EXCEPT ![p].idx = @ + 1, ![p].migrated = @ + 1]
          \/ /\ fs' = fs                                         \* os.Rename fails
             /\ mig' = [mig EXCEPT ![p].idx = @ + 1, ![p].migrated = @ + 1,
                                   ![p].clean = FALSE]
    /\ Goto(p, "mig_file")
    /\ UNCHANGED <<hb, closed, db, cur, conn, clock, runs, op, ret, loc, addLog, quiet>>

\* return migrated, nil
MigReturn(p) ==
    /\ pc[p] = "mig_file"
    /\ mig[p].idx > Len(mig[p].entries)
    /\ Return(p, [err |-> FALSE, val |-> mig[p].migrated])
    /\ quiet' = mig[p].clean
    /\ UNCHANGED <<hb, closed, db, cur, conn, clock, fs, runs, op, loc, mig, addLog>>

(* --------------------------- HeartbeatService -------------------------- *)

Loops == 1..MaxLoops

\* NewHeartbeatService(workspace, onHeartbeat, intervalS, enabled): the stop
\* channel is made open; the legacy callback may be nil; intervalS > 0.
NewHeartbeatService ==
    /\ ~hb.constructed
    /\ \E enabled \in BOOLEAN, callback \in BOOLEAN :
          hb' = [NoHB EXCEPT !.constructed = TRUE, !.enabled = enabled,
                             !.onHeartbeat = callback]
    /\ UNCHANGED storeVars

\* SetOnHeartbeatWithTools(handler): under the lock the field is assigned
\* whatever is given, a handler or nil, any number of times.
SetOnHeartbeatWithTools ==
    /\ hb.constructed /\ ~hb.panicked /\ hb.mu = None
    /\ \E handler \in BOOLEAN : hb' = [hb EXCEPT !.onHeartbeatWithTools = handler]
    /\ UNCHANGED storeVars

\* running(): false once stopChan is closed, true otherwise.
running(h) == h.stopChan = "open"

\* The process dies of a panic: every goroutine ends with it.
Panic(h) ==
    [h EXCEPT !.panicked = TRUE,
              !.hpc = [p \in Procs |-> "dead"],
              !.loop = [l \in 1..MaxLoops |->
                          IF h.loop[l] \in {"none", "done"} THEN h.loop[l]
                          ELSE "killed"],
              !.ticker = [l \in 1..MaxLoops |-> FALSE]]

\* ExecuteHeartbeatWithTools(prompt), called directly by external code: the
\* tool-supporting handler is invoked whatever enabled and running() are, with
\* no lock held; calling the nil handler panics.
ExecuteHeartbeatWithTools(p) ==
    /\ hb.constructed /\ hb.hpc[p] = "idle" /\ hb.calls < MaxCalls
    /\ hb' = IF hb.onHeartbeatWithTools
             THEN [hb EXCEPT !.invoked = "tools", !.calls = @ + 1]
             ELSE Panic([hb EXCEPT !.calls = @ + 1])
    /\ UNCHANGED storeVars

\* The callers inside Start(): each of them may still launch a run loop.
Starting == {q \in Procs : hb.hpc[q] \in {"start_lock", "start_body"}}

\* A caller calls Start() or Stop(). Start() is called only while the loops
\* launched and the ones the Start() calls in progress may launch stay within
\* MaxLoops.
HBCall(p) ==
    /\ hb.constructed /\ hb.hpc[p] = "idle" /\ hb.calls < MaxCalls
    /\ \/ /\ hb.launched + Cardinality(Starting) < MaxLoops
          /\ hb' = [hb EXCEPT !.hpc[p] = "start_lock", !.hret[p] = "pending",
                                !.calls = @ + 1]
       \/ hb' = [hb EXCEPT !.hpc[p] = "stop_lock", !.calls = @ + 1,
                             !.stopCalled = TRUE]
    /\ UNCHANGED storeVars

\* hs.mu.Lock() in Start and Stop.
HBLock(p) ==
    /\ hb.hpc[p] \in {"start_lock", "stop_lock"}
    /\ hb.mu = None
    /\ hb' = [hb EXCEPT !.mu = p,
                         !.hpc[p] = IF @ = "start_lock" THEN "start_body"
                                    ELSE "stop_body"]
    /\ UNCHANGED storeVars

\* The body of Start() under the lock, up to the deferred Unlock.
Start(p) ==
    /\ hb.hpc[p] = "start_body"
    /\ hb' = IF running(hb)
             THEN [hb EXCEPT !.mu = None, !.hpc[p] = "idle", !.hret[p] = "nil"]
             ELSE IF ~hb.enabled
             THEN [hb EXCEPT !.mu = None, !.hpc[p] = "idle",
                             !.hret[p] = "disabled"]
             ELSE [hb EXCEPT !.mu = None, !.hpc[p] = "idle", !.hret[p] = "nil",
                             !.loop[hb.launched + 1] = "new",
                             !.launched = @ + 1]
    /\ UNCHANGED storeVars

\* Mutant: Stop closes the channel without looking at running().
StopNeverReturnsEarly(h) == FALSE

\* if !hs.running() { return } in Stop.
StopReturnsEarly(h) == ~running(h)

\* The body of Stop() under the lock, up to the deferred Unlock.
Stop(p) ==
    /\ hb.hpc[p] = "stop_body"
    /\ hb' = IF StopReturnsEarly(hb)
             THEN [hb EXCEPT !.mu = None, !.hpc[p] = "idle"]
             ELSE [hb EXCEPT !.mu = None, !.hpc[p] = "idle",
                             !.stopChan = "closed", !.closes = @ + 1]
    /\ UNCHANGED storeVars

\* runLoop: ticker := time.NewTicker(hs.interval)
LoopNewTicker(l) ==
    /\ hb.loop[l] = "new"
    /\ hb' = [hb EXCEPT !.loop[l] = "select"]
    /\ UNCHANGED storeVars

\* The interval elapses: the ticker puts a tick in its channel (capacity 1).
TickerFires(l) ==
    /\ hb.loop[l] \in {"select", "check", "invoke", "exec"}
    /\ ~hb.ticker[l]
    /\ hb' = [hb EXCEPT !.ticker[l] = TRUE]
    /\ UNCHANGED storeVars

\* case <-hs.stopChan: return (with the deferred ticker.Stop()).
LoopStopped(l) ==
    /\ hb.loop[l] = "select"
    /\ ~running(hb)
    /\ hb' = [hb EXCEPT !.loop[l] = "done", !.ticker[l] = FALSE]
    /\ UNCHANGED storeVars

\* case <-ticker.C: hs.checkHeartbeat()
LoopTick(l) ==
    /\ hb.loop[l] = "select"
    /\ hb.ticker[l]
    /\ hb' = [hb EXCEPT !.loop[l] = "check", !.ticker[l] = FALSE]
    /\ UNCHANGED storeVars

\* checkHeartbeat, in three steps. At "check": under the read lock, return if
\* disabled or not running. At "invoke", after RUnlock and with no lock held:
\* build the prompt and read the handlers, the tool-supporting one first, the
\* legacy callback otherwise. At "exec": executeHeartbeatWithTools reads the
\* tool-supporting handler again and calls it; calling nil panics.
CheckHeartbeat(l) ==
    /\ hb.loop[l] \in {"check", "invoke", "exec"}
    /\ hb.loop[l] = "check" => hb.mu = None
    /\ hb' = IF hb.loop[l] = "check"
             THEN IF ~hb.enabled \/ ~running(hb)
                  THEN [hb EXCEPT !.loop[l] = "select"]
                  ELSE [hb EXCEPT !.loop[l] = "invoke"]
             ELSE IF hb.loop[l] = "invoke"
             THEN IF hb.onHeartbeatWithTools
                  THEN [hb EXCEPT !.loop[l] = "exec"]
                  ELSE IF hb.onHeartbeat
                  THEN [hb EXCEPT !.loop[l] = "select", !.invoked = "legacy"]
                  ELSE [hb EXCEPT !.loop[l] = "select"]
             ELSE IF hb.onHeartbeatWithTools
                  THEN [hb EXCEPT !.loop[l] = "select", !.invoked = "tools"]
                  ELSE Panic(hb)
    /\ UNCHANGED storeVars

(* --------------------------- specifications --------------------------- *)

\* One statement of a store call in progress.
StoreStep(p) ==
    \/ BeginTx(p) \/ BeginTxFails(p) \/ StmtFails(p) \/ Commit(p)
    \/ AddEnsure(p) \/ AddNextSeq(p) \/ AddInsert(p) \/ AddTouch(p)
    \/ SumEnsure(p) \/ SumUpdate(p)
    \/ TruncDelete(p) \/ TruncTouch(p)
    \/ HistEnsure(p) \/ HistDelete(p) \/ HistInsert(p) \/ HistTouch(p)
    \/ GetQuery(p) \/ GetRows(p) \/ GetRowsFails(p) \/ GetSummary(p) \/ QueryFails(p)

\* One step of MigrateFromJSON outside the shared transaction statements.
MigStep(p) ==
    \/ MigReadDir(p) \/ MigReadDirFails(p) \/ MigFile(p)
    \/ ImpSession(p) \/ ImpCount(p) \/ ImpInsert(p)
    \/ MigRename(p) \/ MigReturn(p)

\* One caller using the store API, one call after the other.
Next == \E p \in {"p1"} : Call(p, SeqOps) \/ StoreStep(p)

Spec == Init /\ [][Next]_vars

\* Two callers sharing the store.
NextConc == \E p \in Procs : Call(p, ConcOps) \/ StoreStep(p)

SpecConc == Init /\ [][NextConc]_vars

\* One caller running the importer between store calls.
NextMig == \E p \in {"p1"} : Call(p, MigOps) \/ StoreStep(p) \/ MigStep(p)

SpecMig == Init /\ [][NextMig]_vars

\* One caller, with time passing between statements.
NextTime == Tick \/ \E p \in {"p1"} : Call(p, TimeOps) \/ StoreStep(p)

SpecTime == Init /\ [][NextTime]_vars

\* One caller running the importer between appends and summary updates, with
\* time passing between statements.
NextMigTime ==
    \/ Tick
    \/ \E p \in {"p1"} :
          \/ Call(p, MigTimeOps)
          \/ BeginTx(p) \/ BeginTxFails(p) \/ StmtFails(p) \/ Commit(p)
          \/ AddEnsure(p) \/ AddNextSeq(p) \/ AddInsert(p) \/ AddTouch(p)
          \/ SumEnsure(p) \/ SumUpdate(p)
          \/ MigStep(p)

SpecMigTime == Init /\ [][NextMigTime]_vars

\* One caller setting and reading summaries between appends and rewrites,
\* with time passing between statements.
NextSum ==
    \/ Tick
    \/ \E p \in {"p1"} :
          \/ Call(p, SumOps)
          \/ BeginTx(p) \/ BeginTxFails(p) \/ StmtFails(p) \/ Commit(p)
          \/ AddEnsure(p) \/ AddNextSeq(p) \/ AddInsert(p) \/ AddTouch(p)
          \/ SumEnsure(p) \/ SumUpdate(p)
          \/ HistEnsure(p) \/ HistDelete(p) \/ HistInsert(p) \/ HistTouch(p)
          \/ GetSummary(p) \/ QueryFails(p)

SpecSum == Init /\ [][NextSum]_vars

\* One caller that closes the store at some point and goes on calling.
NextClose ==
    \E p \in {"p1"} : Call(p, CloseOps) \/ CloseDB(p) \/ StoreStep(p) \/ MigStep(p)

SpecClose == Init /\ [][NextClose]_vars

\* One caller running the importer once while another appends to, rewrites
\* and truncates the session being imported.
NextLive ==
    \/ (runs = 0 /\ Call("p1", {Migrate})) \/ MigStep("p1")
    \/ Call("p2", LiveOps)
    \/ AddEnsure("p2") \/ AddNextSeq("p2") \/ AddInsert("p2") \/ AddTouch("p2")
    \/ TruncDelete("p2") \/ TruncTouch("p2")
    \/ HistEnsure("p2") \/ HistDelete("p2") \/ HistInsert("p2") \/ HistTouch("p2")
    \/ \E p \in Procs : BeginTx(p) \/ BeginTxFails(p) \/ StmtFails(p) \/ Commit(p)

SpecLive == Init /\ [][NextLive]_vars

\* The HeartbeatService: two callers of its methods, and the run loops.
NextHB ==
    \/ NewHeartbeatService \/ SetOnHeartbeatWithTools
    \/ \E p \in Procs :
          \/ HBCall(p) \/ HBLock(p) \/ Start(p) \/ Stop(p)
          \/ ExecuteHeartbeatWithTools(p)
    \/ \E l \in Loops :
          \/ LoopNewTicker(l) \/ TickerFires(l) \/ LoopStopped(l)
          \/ LoopTick(l) \/ CheckHeartbeat(l)

SpecHB == Init /\ [][NextHB]_vars

\* The same with the scheduling the Go runtime gives: a goroutine that can
\* take a step takes it, time passes, and a select with several ready cases
\* picks each of them sooner or later.
FairHB ==
    /\ \A p \in Procs : WF_vars(HBLock(p) \/ Start(p) \/ Stop(p))
    /\ \A l \in Loops :
          /\ WF_vars(LoopNewTicker(l) \/ CheckHeartbeat(l))
          /\ WF_vars(TickerFires(l))
          /\ SF_vars(LoopStopped(l))

SpecHBFair == SpecHB /\ FairHB

(* ------------------------------- claims ------------------------------- *)

Iota(n) == [q \in 1..n |-> q]
Returned(p) == pc[p] = "idle" /\ op[p] # NoOp
\* The step in which the transaction of p commits.
Commits(p, name) ==
    pc[p] = "commit" /\ op[p].name = name /\ pc'[p] = "idle" /\ ~ret'[p].err

\* C1: when only AddFullMessage calls have committed on a key since it had no
\* session, GetHistory returns exactly the appended messages in call order and
\* their seq values are 1, 2, ..., n.
C1_AppendsInCallOrder ==
    \A k \in Keys :
        addLog[k].pure =>
            /\ HistoryOf(db, k) = addLog[k].msgs
            /\ SeqsInOrder(db, k) = Iota(Len(addLog[k].msgs))

C1_Witness ==
    /\ addLog[InnerKey].pure
    /\ addLog[InnerKey].msgs = <<MsgUser, MsgTool, MsgUser>>
    /\ Len(HistoryOf(db, InnerKey)) = 3

\* C2: in every state no two message rows share (session_key, seq), and the
\* seq values of each session are a contiguous run of integers; this holds of
\* the committed tables and of the tables as the open transaction sees them.
Contiguous(S) == S = {} \/ S = Min(S)..Max(S)
C2_UniqueContiguousSeq ==
    \A d \in {db, cur} :
        /\ \A m1 \in d.messages : \A m2 \in d.messages :
              (m1.session_key = m2.session_key /\ m1.seq = m2.seq) => m1 = m2
        /\ \A k \in AllKeys : Contiguous(Seqs(d, k))

C2_Witness ==
    /\ Seqs(db, InnerKey) = {2, 3}
    /\ Seqs(db, FileKey) = {1, 2}
    /\ Seqs(db, ImportedKey) = {1}
    /\ runs = 1

\* C3: a committed TruncateHistory(key, keepLast) leaves no message of key when
\* keepLast <= 0, and otherwise exactly the min(keepLast, m) rows with the
\* largest seq, unchanged and in their order; rows of other sessions and all
\* session rows but key's are untouched.
Kept(keepLast, m) == IF keepLast <= 0 THEN 0 ELSE IF keepLast < m THEN keepLast ELSE m
TruncatePost(k, keepLast, d, e) ==
    LET before == OrderBySeq(MessageRows(d, k))
        m == Len(before)
        r == Kept(keepLast, m)
    IN /\ OrderBySeq(MessageRows(e, k)) = SubSeq(before, m - r + 1, m)
       /\ HistoryOf(e, k) = SubSeq(HistoryOf(d, k), m - r + 1, m)
       /\ Len(HistoryOf(e, k)) = r
       /\ \A k2 \in AllKeys \ {k} :
             /\ MessageRows(e, k2) = MessageRows(d, k2)
             /\ SessionRows(e, k2) = SessionRows(d, k2)
C3_TruncateKeepsLast ==
    [][\A p \in Procs :
          Commits(p, "TruncateHistory") =>
              TruncatePost(op[p].key, op[p].keepLast, db, db')]_vars

C3_Witness ==
    \E p \in Procs :
        /\ pc[p] = "commit"
        /\ op[p] = Truncate(InnerKey, 2)
        /\ HistoryOf(db, InnerKey) = <<MsgUser, MsgTool, MsgUser>>
        /\ HistoryOf(cur, InnerKey) = <<MsgTool, MsgUser>>
        /\ SeqsInOrder(cur, InnerKey) = <<2, 3>>
        /\ MessageRows(db, FileKey) # {}

\* C4: a committed SetHistory(key, msgs) leaves GetHistory(key) = msgs with seq
\* equal to the 1-based input position, whatever the history was before; in
\* particular when the history already was msgs with seq 1..n (a second call
\* with the same input) the history and the seq values are unchanged.
C4_SetHistoryReplaces ==
    [][\A p \in Procs :
          Commits(p, "SetHistory") =>
              LET k == op[p].key
                  h == op[p].history
              IN /\ HistoryOf(db', k) = h
                 /\ SeqsInOrder(db', k) = Iota(Len(h))
                 /\ (HistoryOf(db, k) = h /\ SeqsInOrder(db, k) = Iota(Len(h)))
                      => /\ HistoryOf(db', k) = HistoryOf(db, k)
                         /\ SeqsInOrder(db', k) = SeqsInOrder(db, k)]_vars

C4_Witness ==
    \E p \in Procs :
        /\ pc[p] = "commit"
        /\ op[p] = SetHist(InnerKey, <<MsgTool, MsgUser>>)
        /\ HistoryOf(db, InnerKey) = <<MsgTool, MsgUser>>
        /\ SeqsInOrder(db, InnerKey) = <<1, 2>>
        /\ HistoryOf(cur, InnerKey) = <<MsgTool, MsgUser>>

\* C5: a mutating call that returns an error (BeginTx, a statement or Commit
\* failed, the context was cancelled) leaves the committed tables as they
\* were, drops what its transaction wrote and frees the connection; and the
\* committed tables change in no step other than a successful Commit.
C5_AllOrNothing ==
    [][/\ \A p \in Procs :
            (pc[p] \in TxPcs \cup {"begin"} /\ pc'[p] = "idle" /\ ret'[p].err)
                => (db' = db /\ cur' = db /\ conn' = None)
       /\ db' # db =>
            \E q \in Procs : pc[q] = "commit" /\ pc'[q] \in {"idle", "mig_rename"}
                             /\ ~ret'[q].err]_vars

C5_Witness ==
    \E p \in Procs :
        /\ Returned(p) /\ ret[p].err /\ ret[p].val = "statement"
        /\ op[p] = SetHist(InnerKey, <<MsgTool>>)
        /\ loc[p].i = 2
        /\ HistoryOf(db, InnerKey) = <<MsgUser>>
        /\ \E s \in SessionRows(db, InnerKey) : s.updated_at < clock
        /\ cur = db /\ conn = None

\* C6: while GetHistory(key) holds its result and another caller's
\* SetHistory(key, new) is in progress or has returned, that call has no open
\* transaction, the connection shows no uncommitted write, and the result is
\* the complete committed history of key: the one before the SetHistory
\* committed or the one after, never a partly rewritten one.
C6_ReaderSeesCommitted ==
    \A p \in Procs : \A q \in Procs \ {p} :
        (pc[p] = "rows" /\ op[q].name = "SetHistory" /\ op[q].key = op[p].key)
            => /\ pc[q] \notin TxPcs
               /\ cur = db
               /\ loc[p].messages = HistoryOf(db, op[p].key)

C6_Witness ==
    \E p \in Procs : \E q \in Procs \ {p} :
        /\ pc[p] = "rows" /\ op[p] = Get(InnerKey)
        /\ pc[q] = "begin" /\ op[q] = SetHist(InnerKey, <<MsgTool, MsgUser>>)
        /\ loc[p].messages = <<MsgUser, MsgUser>>

\* C7: with several callers appending to one session, at most one call is
\* inside a transaction or a query at a time and it holds the connection; the
\* seq a call read is still the session's next seq when it inserts; no call
\* returns a UNIQUE constraint error; and the committed appends on a fresh
\* session have seq exactly 1..k.
HoldsConn(p) == pc[p] \in TxPcs \cup {"rows"}
C7_AppendsSerialized ==
    /\ Cardinality({p \in Procs : HoldsConn(p)}) <= 1
    /\ \A p \in Procs : HoldsConn(p) => conn = p
    /\ \A p \in Procs :
          (pc[p] = "add_insert")
              => /\ loc[p].seq = nextSeq(cur, op[p].key)
                 /\ loc[p].seq \notin Seqs(cur, op[p].key)
    /\ \A p \in Procs : (Returned(p) /\ ret[p].err) => ret[p].val # "constraint"
    /\ addLog[InnerKey].pure =>
          Seqs(db, InnerKey) = 1..Len(addLog[InnerKey].msgs)

C7_Witness ==
    \E p \in Procs : \E q \in Procs \ {p} :
        /\ pc[p] = "add_insert" /\ op[p] = Add(InnerKey, MsgUser)
        /\ pc[q] = "begin" /\ op[q] = Add(InnerKey, MsgUser)
        /\ addLog[InnerKey].pure /\ Len(addLog[InnerKey].msgs) = 1
        /\ loc[p].seq = 2

\* The well-formed legacy files (parsable, non-empty key) among the entries
\* the run of p listed.
Listed(p) == {mig[p].entries[q].Name : q \in 1..Len(mig[p].entries)}
WellFormed(p) == {n \in Listed(p) \cap LegacyFiles : Importable(InitialFS, n)}
MigrateReturned(p) ==
    Returned(p) /\ op[p].name = "MigrateFromJSON" /\ ~ret[p].err

\* C8: a migrate run in which nothing fails returns the number of well-formed
\* files it listed, leaves each of them renamed with the processed suffix and
\* its session stored (with the file's messages, seq 1..n, if the session had
\* no message); a run started right after such a run returns 0 and leaves the
\* tables exactly as they were.
C8_MigrateTwice ==
    \A p \in Procs :
        (MigrateReturned(p) /\ mig[p].clean)
            => /\ ret[p].val = Cardinality(WellFormed(p))
               /\ \A n \in WellFormed(p) :
                     LET sess == InitialFS[n].Sess
                     IN /\ fs[n] = NoFile
                        /\ fs[MigratedName(n)] = InitialFS[n]
                        /\ SessionRows(db, sess.Key) # {}
                        /\ MessageRows(mig[p].start, sess.Key) = {}
                             => /\ HistoryOf(db, sess.Key) = sess.Messages
                                /\ SeqsInOrder(db, sess.Key) = Iota(Len(sess.Messages))
               /\ mig[p].rerun => (ret[p].val = 0 /\ db = mig[p].start)

C8_Witness ==
    \E p \in Procs :
        /\ MigrateReturned(p) /\ mig[p].clean /\ mig[p].rerun
        /\ runs = 2 /\ ret[p].val = 0
        /\ fs["a_b.json"] = NoFile /\ fs["a_b.json.migrated"] = Parsable(SessAB)
        /\ fs["c.json.migrated"] = Parsable(SessC)
        /\ HistoryOf(db, InnerKey) = SessAB.Messages
        /\ SummaryOf(db, InnerKey) = "legacy"

\* C9: inside migrate, a file that cannot be read, cannot be parsed, has an
\* empty key or whose import fails is passed over without a change to the
\* count, the directory or the tables; the batch never returns an error for
\* it; and at the end every well-formed file that did not fail is stored and
\* counted, every failed one is still there under its own name with no session
\* row added, and the unparsable and keyless ones are never renamed.
C9_FailSoft ==
    [][\A p \in Procs :
          InMigrate(p) =>
            /\ (pc[p] \in TxPcs \cup {"begin", "mig_file", "mig_rename"} /\ pc'[p] = "idle")
                  => ~ret'[p].err
            /\ (pc[p] \in TxPcs \cup {"begin", "mig_file"} /\ pc'[p] = "mig_file")
                  => /\ mig'[p].migrated = mig[p].migrated
                     /\ mig'[p].idx = mig[p].idx + 1
                     /\ fs' = fs /\ db' = db /\ cur' = db
            /\ (pc[p] = "mig_file" /\ pc'[p] = "idle")
                  => /\ ret'[p].val = Cardinality(WellFormed(p) \ mig[p].failed)
                     /\ \A n \in WellFormed(p) \ mig[p].failed :
                           SessionRows(db, InitialFS[n].Sess.Key) # {}
                     /\ \A n \in WellFormed(p) \cap mig[p].failed :
                           /\ fs[n] = InitialFS[n]
                           /\ SessionRows(mig[p].start, InitialFS[n].Sess.Key) = {}
                                => SessionRows(db, InitialFS[n].Sess.Key) = {}
                     /\ \A n \in LegacyFiles \ {m \in LegacyFiles : Importable(InitialFS, m)} :
                           fs[n] = InitialFS[n] /\ fs[MigratedName(n)] = NoFile]_vars

C9_Witness ==
    \E p \in Procs :
        /\ MigrateReturned(p)
        /\ mig[p].failed = {"a_b.json"}
        /\ ret[p].val = 1
        /\ fs["a_b.json"] = Parsable(SessAB) /\ fs["c.json"] = NoFile
        /\ fs["bad.json"] = Unparsable /\ fs["nokey.json"] = Parsable(SessNoKey)
        /\ SessionRows(db, InnerKey) = {}
        /\ HistoryOf(db, ImportedKey) = SessC.Messages

\* C10: after a migrate run that imported the file a_b.json (inner key a:b),
\* the session a:b exists and, if it had no message before, GetHistory(a:b)
\* returns the file's messages; the rows under the file-name-derived key a_b
\* are what they were before the run, so with none before GetHistory(a_b) is
\* empty and no session row a_b exists.
C10_StoredUnderInnerKey ==
    \A p \in Procs :
        (MigrateReturned(p) /\ "a_b.json" \in WellFormed(p) \ mig[p].failed)
            => /\ SessionRows(db, InnerKey) # {}
               /\ MessageRows(mig[p].start, InnerKey) = {}
                    => HistoryOf(db, InnerKey) = SessAB.Messages
               /\ SessionRows(db, FileKey) = SessionRows(mig[p].start, FileKey)
               /\ MessageRows(db, FileKey) = MessageRows(mig[p].start, FileKey)
               /\ SessionRows(mig[p].start, FileKey) = {}
                    => HistoryOf(db, FileKey) = <<>> /\ SessionRows(db, FileKey) = {}

C10_Witness ==
    \E p \in Procs :
        /\ MigrateReturned(p) /\ "a_b.json" \in WellFormed(p) \ mig[p].failed
        /\ HistoryOf(db, InnerKey) = SessAB.Messages
        /\ HistoryOf(db, FileKey) = <<>>
        /\ SessionRows(db, FileKey) = {}
        /\ TrimSuffixJSON("a_b.json") = FileKey

\* The step in which the import transaction of a file commits.
ImportCommits(p) == InMigrate(p) /\ pc[p] = "commit" /\ pc'[p] = "mig_rename"
CreatedAt(d, k) == {s.created_at : s \in SessionRows(d, k)}
UpdatedAt(d, k) == {s.updated_at : s \in SessionRows(d, k)}

\* C11: when the import of a file commits and the file's key already named a
\* session, that session keeps its summary and created_at; if it already had a
\* message, its message rows and history are the same after the commit; and
\* when the run returns, every session that existed when it began has the
\* summary and created_at it had, and every session that had a message then
\* has the same message rows.
C11_ExistingSessionKept ==
    [][\A p \in Procs :
          /\ ImportCommits(p) =>
                LET k == TxKey(p)
                IN /\ SessionRows(db, k) # {} =>
                         /\ SummaryOf(db', k) = SummaryOf(db, k)
                         /\ CreatedAt(db', k) = CreatedAt(db, k)
                   /\ MessageRows(db, k) # {} =>
                         /\ MessageRows(db', k) = MessageRows(db, k)
                         /\ HistoryOf(db', k) = HistoryOf(db, k)
                         /\ SessionRows(db', k) = SessionRows(db, k)
          /\ (InMigrate(p) /\ pc[p] = "mig_file" /\ pc'[p] = "idle") =>
                \A k \in AllKeys :
                   /\ SessionRows(mig[p].start, k) # {} =>
                         /\ SummaryOf(db', k) = SummaryOf(mig[p].start, k)
                         /\ CreatedAt(db', k) = CreatedAt(mig[p].start, k)
                   /\ MessageRows(mig[p].start, k) # {} =>
                         MessageRows(db', k) = MessageRows(mig[p].start, k)]_vars

C11_Witness ==
    \E p \in Procs :
        /\ MigrateReturned(p) /\ ret[p].val = 2
        /\ SummaryOf(mig[p].start, InnerKey) = "note"
        /\ CreatedAt(mig[p].start, InnerKey) = {1}
        /\ HistoryOf(mig[p].start, InnerKey) = <<MsgUser>>
        /\ SummaryOf(db, InnerKey) = "note"
        /\ CreatedAt(db, InnerKey) = {1}
        /\ HistoryOf(db, InnerKey) = <<MsgUser>>
        /\ fs["a_b.json.migrated"] = Parsable(SessAB)

\* C12: the count of a migrate run goes up by one only in a step in which the
\* file, whose import has committed, is renamed to the processed suffix.
C12_CountedOnlyAfterRename ==
    [][\A p \in Procs :
          (InMigrate(p) /\ pc[p] # "idle" /\ mig'[p].migrated # mig[p].migrated) =>
              LET name == mig[p].entries[mig[p].idx].Name
              IN /\ pc[p] = "mig_rename"
                 /\ mig'[p].migrated = mig[p].migrated + 1
                 /\ fs'[name] = NoFile
                 /\ fs'[MigratedName(name)] = fs[name]]_vars

\* C13: the import of a file is one transaction.  While migrate runs, the
\* committed tables change only when an import commits, and then only in the
\* rows of the file's key: its messages are as before (the session had some)
\* or exactly the file's messages in array order with seq 1..n.  An import
\* that fails leaves the committed tables as they were.  When the run returns,
\* a well-formed file whose key had no session when the run began has either
\* all its messages stored in order with seq 1..n, or no message and no
\* session row: never a strict non-empty prefix.
C13_ImportIsOneTransaction ==
    [][\A p \in Procs :
          (InMigrate(p) /\ pc[p] # "idle") =>
            /\ db' # db =>
                  /\ ImportCommits(p)
                  /\ \A k \in AllKeys \ {TxKey(p)} :
                        /\ MessageRows(db', k) = MessageRows(db, k)
                        /\ SessionRows(db', k) = SessionRows(db, k)
                  /\ \/ MessageRows(db', TxKey(p)) = MessageRows(db, TxKey(p))
                     \/ /\ MessageRows(db, TxKey(p)) = {}
                        /\ HistoryOf(db', TxKey(p)) = mig[p].sess.Messages
                        /\ SeqsInOrder(db', TxKey(p)) = Iota(Len(mig[p].sess.Messages))
            /\ (ImportCommits(p) /\ MessageRows(db, TxKey(p)) = {}) =>
                  /\ HistoryOf(db', TxKey(p)) = mig[p].sess.Messages
                  /\ SeqsInOrder(db', TxKey(p)) = Iota(Len(mig[p].sess.Messages))
            /\ (pc[p] \in TxPcs \cup {"begin"} /\ pc'[p] = "mig_file") =>
                  db' = db /\ cur' = db
            /\ (pc[p] = "mig_file" /\ pc'[p] = "idle") =>
                  \A n \in WellFormed(p) :
                     LET sess == InitialFS[n].Sess
                     IN SessionRows(mig[p].start, sess.Key) = {} =>
                          \/ /\ HistoryOf(db, sess.Key) = sess.Messages
                             /\ SeqsInOrder(db, sess.Key) = Iota(Len(sess.Messages))
                          \/ /\ MessageRows(db, sess.Key) = {}
                             /\ SessionRows(db, sess.Key) = {}]_vars

C13_Witness ==
    \E p \in Procs :
        /\ InMigrate(p) /\ pc[p] = "mig_file" /\ mig[p].idx = 2
        /\ mig[p].failed = {"a_b.json"}
        /\ mig[p].sess = SessAB
        /\ loc[p].i = 2
        /\ SessionRows(mig[p].start, InnerKey) = {}
        /\ SessionRows(db, InnerKey) = {} /\ MessageRows(db, InnerKey) = {}
        /\ cur = db /\ conn = None

\* The updated_at the committing transaction of p leaves on its session is a
\* time of the call: not before the call was made, not after now.
RefreshedBy(p) ==
    \A s \in SessionRows(db', TxKey(p)) :
        loc[p].began <= s.updated_at /\ s.updated_at <= clock

\* C14: every committing AddFullMessage, SetSummary, SetHistory and
\* TruncateHistory leaves its session's updated_at at a time of that call; and
\* so does a committing import that inserts messages into a session that
\* existed without messages.
C14_UpdatedAtRefreshed ==
    [][\A p \in Procs :
          /\ (\E name \in {"AddFullMessage", "SetSummary", "SetHistory",
                            "TruncateHistory"} : Commits(p, name))
                => RefreshedBy(p)
          /\ ( /\ ImportCommits(p)
               /\ SessionRows(db, TxKey(p)) # {}
               /\ MessageRows(db, TxKey(p)) = {}
               /\ MessageRows(db', TxKey(p)) # {} )
                => RefreshedBy(p)]_vars

\* The part of C14 about the four store calls.
C14_StoreCallsRefresh ==
    [][\A p \in Procs :
          (\E name \in {"AddFullMessage", "SetSummary", "SetHistory",
                         "TruncateHistory"} : Commits(p, name))
              => RefreshedBy(p)]_vars

\* C15: a committing AddFullMessage, SetHistory or SetSummary on a key without
\* a session creates the row, stamped with a time of the call, with an empty
\* summary (SetSummary: with its text); on a key with a session it leaves
\* created_at alone, AddFullMessage and SetHistory leave the summary alone,
\* SetSummary sets the summary to its text and leaves every message alone.
\* The summary of a session changes in no other step.  GetSummary returns ""
\* for a key without a session and the stored summary otherwise.
C15_CreationNeverOverwrites ==
    [][\A p \in Procs :
          /\ (\E name \in {"AddFullMessage", "SetHistory", "SetSummary"} :
                  Commits(p, name)) =>
                LET k == op[p].key
                    text == IF op[p].name = "SetSummary" THEN op[p].summary ELSE ""
                IN /\ Cardinality(SessionRows(db', k)) = 1
                   /\ SessionRows(db, k) = {} =>
                         /\ SummaryOf(db', k) = text
                         /\ \A t \in CreatedAt(db', k) :
                               loc[p].began <= t /\ t <= clock
                   /\ SessionRows(db, k) # {} =>
                         /\ CreatedAt(db', k) = CreatedAt(db, k)
                         /\ op[p].name # "SetSummary" =>
                               SummaryOf(db', k) = SummaryOf(db, k)
                         /\ op[p].name = "SetSummary" =>
                               SummaryOf(db', k) = op[p].summary
                   /\ op[p].name = "SetSummary" => db'.messages = db.messages
          /\ (\E k \in AllKeys : SummaryOf(db', k) # SummaryOf(db, k)) =>
                \E q \in Procs : Commits(q, "SetSummary")
          /\ (pc[p] = "queryrow" /\ pc'[p] = "idle" /\ ~ret'[p].err) =>
                /\ ret'[p].val = SummaryOf(db, op[p].key)
                /\ SessionRows(db, op[p].key) = {} => ret'[p].val = ""
                /\ db' = db]_vars

C15_Witness ==
    \E p \in Procs :
        /\ Returned(p) /\ op[p] = GetSum(InnerKey) /\ ret[p].val = "memo"
        /\ CreatedAt(db, InnerKey) = {0}
        /\ UpdatedAt(db, InnerKey) = {1}
        /\ HistoryOf(db, InnerKey) = <<MsgTool, MsgUser>>

\* What the claim compares of a written and a returned message.
SameCalls(a, b) ==
    /\ Len(a.ToolCalls) = Len(b.ToolCalls)
    /\ \A n \in 1..Len(a.ToolCalls) :
          /\ a.ToolCalls[n].ID = b.ToolCalls[n].ID
          /\ a.ToolCalls[n].Type = b.ToolCalls[n].Type
          /\ a.ToolCalls[n].Function.Name = b.ToolCalls[n].Function.Name
          /\ a.ToolCalls[n].Function.Arguments = b.ToolCalls[n].Function.Arguments
    /\ a.ToolCallID = b.ToolCallID
    /\ a.Content = b.Content
SameCallsAll(written, read) ==
    /\ Len(written) = Len(read)
    /\ \A n \in 1..Len(written) : SameCalls(written[n], read[n])

\* The stored rows of k carry a tool_calls_json exactly for the messages that
\* were written with tool calls, position by position.
StoredWhenPresent(d, k, written) ==
    LET rs == OrderBySeq(MessageRows(d, k))
    IN /\ Len(rs) = Len(written)
       /\ \A n \in 1..Len(rs) :
             rs[n].tool_calls_json.Valid <=> Len(written[n].ToolCalls) > 0

C17_ClosedStoreFails ==
    [][\A p \in Procs :
          /\ (closed /\ conn = None) =>
                /\ db' = db /\ cur' = cur /\ conn' = None /\ closed'
                /\ (\A q \in Procs : pc[q] # "mig_rename") => fs' = fs
          /\ (closed /\ ~InMigrate(p) /\ pc[p] \in {"begin", "query", "queryrow"}
                 /\ pc'[p] # pc[p]) =>
                pc'[p] = "idle" /\ ret'[p].err
          /\ (closed /\ InMigrate(p) /\ pc[p] = "begin" /\ pc'[p] # pc[p]) =>
                /\ pc'[p] = "mig_file"
                /\ mig'[p].migrated = mig[p].migrated
          /\ (closed /\ InMigrate(p) /\ pc[p] = "mig_file" /\ pc'[p] = "idle") =>
                /\ ~ret'[p].err
                /\ conn = None => ret'[p].val = mig[p].migrated]_vars

C17_Witness ==
    \E p \in Procs :
        /\ closed /\ MigrateReturned(p) /\ ret[p].val = 0 /\ runs = 1
        /\ mig[p].failed = {"a_b.json", "c.json"}
        /\ fs["a_b.json"] = Parsable(SessAB) /\ fs["c.json"] = Parsable(SessC)
        /\ HistoryOf(db, InnerKey) = <<MsgUser>>
        /\ SessionRows(db, ImportedKey) = {}

\* No two message rows of d share (session_key, seq).
UniqueSeqs(d) ==
    \A m1 \in d.messages : \A m2 \in d.messages :
        (m1.session_key = m2.session_key /\ m1.seq = m2.seq) => m1 = m2

\* C18: while migrate runs next to AddFullMessage, SetHistory and
\* TruncateHistory calls of another caller on the same key, no two rows share
\* (session_key, seq); every INSERT a caller is about to issue passes the
\* constraints, so no call or import fails on one; an import commits either
\* no message (the session had some) or all of its file's messages with seq
\* 1..n, and a failed import commits nothing; a committing AddFullMessage adds
\* exactly its row at max(seq) + 1.
C18_MigrateWithLiveTraffic ==
    [][/\ UniqueSeqs(db') /\ UniqueSeqs(cur')
       /\ \A p \in Procs :
            /\ pc[p] = "add_insert" => CanInsertMessage(cur, op[p].key, loc[p].seq)
            /\ pc[p] \in {"hist_insert", "imp_insert"} =>
                  CanInsertMessage(cur, TxKey(p), PositionSeq(loc[p].i))
            /\ (~InMigrate(p) /\ pc[p] # "idle" /\ pc'[p] = "idle" /\ ret'[p].err) =>
                  ret'[p].val # "constraint"
            /\ ImportCommits(p) =>
                  \/ /\ MessageRows(db, TxKey(p)) # {}
                     /\ MessageRows(db', TxKey(p)) = MessageRows(db, TxKey(p))
                  \/ /\ MessageRows(db, TxKey(p)) = {}
                     /\ HistoryOf(db', TxKey(p)) = mig[p].sess.Messages
                     /\ SeqsInOrder(db', TxKey(p)) = Iota(Len(mig[p].sess.Messages))
            /\ (InMigrate(p) /\ pc[p] \in TxPcs \cup {"begin"} /\ pc'[p] = "mig_file") =>
                  db' = db
            /\ Commits(p, "AddFullMessage") =>
                  /\ db.messages \subseteq db'.messages
                  /\ \E r \in db'.messages :
                        /\ db'.messages = db.messages \cup {r}
                        /\ r.session_key = op[p].key
                        /\ r.seq = nextSeq(db, op[p].key)]_vars

C18_Witness ==
    /\ InMigrate("p1") /\ pc["p1"] = "imp_insert" /\ conn = "p1"
    /\ mig["p1"].sess = SessAB /\ loc["p1"].i = 2
    /\ HistoryOf(cur, InnerKey) = <<MsgUser>> /\ HistoryOf(db, InnerKey) = <<>>
    /\ SessionRows(db, InnerKey) = {} /\ SessionRows(cur, InnerKey) # {}
    /\ pc["p2"] = "begin" /\ op["p2"] = Add(InnerKey, MsgUser)

\* The content of every legacy file is still in the directory, under its
\* name or under its name plus the processed suffix.
ContentKept ==
    \A n \in LegacyFiles :
        \/ fs[n] = InitialFS[n] /\ fs[MigratedName(n)] = NoFile
        \/ fs[n] = NoFile /\ fs[MigratedName(n)] = InitialFS[n]

\* C19: in every state the content of every legacy file is still there under
\* its name or its suffixed name; and when a migrate run returns, every file
\* whose import succeeded in that run is gone from its original name and
\* present under the suffixed name.
C19_RenamedNeverDeleted ==
    /\ ContentKept
    /\ \A p \in Procs :
          MigrateReturned(p) =>
              \A n \in WellFormed(p) \ mig[p].failed :
                  fs[n] = NoFile /\ fs[MigratedName(n)] = InitialFS[n]

\* C20: a committing AddFullMessage adds exactly one row, with seq one more
\* than the largest seq stored for the session, or 1 when none is stored, and
\* the message is last in GetHistory; its INSERT never collides with a stored
\* seq.  A committing TruncateHistory with keepLast > 0 keeps the largest seq
\* (so the next append gets the previous largest seq + 1); one with
\* keepLast <= 0, and a committing SetHistory with an empty list, leave no seq
\* (so the next append gets 1).
C20_NextSeqIsMaxPlusOne ==
    [][\A p \in Procs :
          /\ Commits(p, "AddFullMessage") =>
                LET k == op[p].key
                    sq == IF Seqs(db, k) = {} THEN 1 ELSE Max(Seqs(db, k)) + 1
                IN /\ Seqs(db', k) = Seqs(db, k) \cup {sq}
                   /\ sq \notin Seqs(db, k)
                   /\ SeqsInOrder(db', k) = Append(SeqsInOrder(db, k), sq)
                   /\ HistoryOf(db', k) = Append(HistoryOf(db, k), op[p].msg)
          /\ (pc[p] = "add_insert" /\ pc'[p] = "idle" /\ ret'[p].err) =>
                ret'[p].val # "constraint"
          /\ Commits(p, "TruncateHistory") =>
                LET k == op[p].key
                IN IF op[p].keepLast > 0 /\ Seqs(db, k) # {}
                   THEN Seqs(db', k) # {} /\ Max(Seqs(db', k)) = Max(Seqs(db, k))
                   ELSE Seqs(db', k) = {}
          /\ (Commits(p, "SetHistory") /\ op[p].history = <<>>) =>
                Seqs(db', op[p].key) = {}]_vars

C20_Witness ==
    \E p \in Procs :
        /\ Returned(p) /\ ~ret[p].err /\ op[p] = Add(InnerKey, MsgTool)
        /\ SeqsInOrder(db, InnerKey) = <<2, 3>>
        /\ HistoryOf(db, InnerKey) = <<MsgUser, MsgTool>>

\* Every message row of d belongs to a session row of d.
NoOrphans(d) == \A m \in d.messages : SessionRows(d, m.session_key) # {}

\* C21: every message row belongs to an existing session row, in the committed
\* tables and inside an open transaction; no step of GetHistory or GetSummary
\* changes the tables; a committing TruncateHistory on a key without a session
\* changes nothing; and GetHistory on a key without a session reads the empty
\* sequence and returns it with no error, unless the iteration itself fails
\* (cancelled context, engine error), which does not depend on the session.
C21_NoOrphansReadsCreateNothing ==
    [][/\ NoOrphans(db) /\ NoOrphans(cur) /\ NoOrphans(db') /\ NoOrphans(cur')
       /\ \A p \in Procs :
            /\ (pc[p] \in {"query", "rows", "queryrow"} /\ pc'[p] # pc[p]) =>
                  db' = db /\ cur' = cur
            /\ (Commits(p, "TruncateHistory") /\ SessionRows(db, op[p].key) = {}) =>
                  db' = db
            /\ (pc[p] = "rows" /\ SessionRows(db, op[p].key) = {}) =>
                  /\ loc[p].messages = <<>>
                  /\ pc'[p] = "idle" =>
                        \/ ~ret'[p].err /\ ret'[p].val = <<>>
                        \/ ret'[p].err /\ ret'[p].val = "rows"]_vars

C21_Witness ==
    \E p \in Procs :
        /\ Returned(p) /\ ~ret[p].err /\ op[p] = Truncate(InnerKey, 1)
        /\ SessionRows(db, InnerKey) = {}
        /\ HistoryOf(db, InnerKey) = <<>>
        /\ HistoryOf(db, FileKey) = <<MsgUser, MsgUser>>

\* Start() returned nil to p on an enabled service on which Stop() has never
\* been called (the service was newly constructed when Start ran).
StartedFresh(p) ==
    /\ hb.constructed /\ hb.enabled /\ hb.hret[p] = "nil"
    /\ ~hb.stopCalled /\ ~hb.panicked
LoopActive ==
    \E l \in Loops : hb.loop[l] \in {"new", "select", "check", "invoke", "exec"}
HandlerSet == hb.onHeartbeatWithTools \/ hb.onHeartbeat

\* C22: once Start() has returned nil on a newly constructed, enabled service
\* and until Stop() is called, a run loop is active; with a handler set, a
\* handler is eventually invoked unless Stop() is called; and the handler
\* invoked is the tool-supporting one when set, the legacy callback otherwise.
C22_StartedLoopRuns ==
    /\ [](\A p \in Procs : StartedFresh(p) => LoopActive)
    /\ \A p \in Procs :
          (StartedFresh(p) /\ HandlerSet) ~> (hb.invoked # "none" \/ hb.stopCalled)
    /\ [][\A l \in Loops :
             /\ (hb.loop[l] = "invoke" /\ hb'.loop[l] = "exec") =>
                   hb.onHeartbeatWithTools
             /\ (hb.loop[l] = "invoke" /\ hb'.loop[l] = "select") =>
                   /\ ~hb.onHeartbeatWithTools
                   /\ hb'.invoked = IF hb.onHeartbeat THEN "legacy" ELSE hb.invoked
             /\ (hb.loop[l] = "exec" /\ hb'.loop[l] = "select") =>
                   hb'.invoked = "tools"]_vars

\* C23: every Start() on a service constructed with enabled = false returns
\* the 'heartbeat service is disabled' error and launches no run loop, whether
\* the service is newly constructed or already stopped; and no handler is
\* ever invoked by a disabled service.
C23_DisabledStartFails ==
    [][/\ \A p \in Procs :
            (hb.hpc[p] = "start_body" /\ hb'.hpc[p] = "idle" /\ ~hb.enabled) =>
                /\ hb'.hret[p] = "disabled"
                /\ hb'.launched = hb.launched
                /\ hb'.loop = hb.loop
       /\ (hb'.constructed /\ ~hb'.enabled) => hb'.invoked = "none"]_vars

\* The run loops blocked in their select with the stop channel open.
WaitingForTicks == {l \in Loops : hb.loop[l] = "select" /\ running(hb)}

====
